---- MODULE Spec2Model ----
(***************************************************************************)
(* Once-only initialization coordinator of backend/init.sh: N container    *)
(* instances share one lock file (flock on fd 200) and one completion      *)
(* marker (FLAG_FILE); the lock holder waits for the database, runs the    *)
(* seeder and writes the marker.                                           *)
(***************************************************************************)
EXTENDS Integers, FiniteSets, Sequences, TLC

(* ---------------- bounds of the model ---------------- *)
NumInstances == 2
MaxTimeout == 5
MaxInterval == 3
MaxWall == 24

(* ---------------- program constants ---------------- *)
SettleDelay == 15
NcSleep == 2

Inst == 1..NumInstances
Timeouts == (MaxTimeout - 1)..MaxTimeout
Intervals == (MaxInterval - 1)..MaxInterval

VARIABLES
  env,          \* what the container provides: tools, DATABASE_URL, /app, DB_TIMEOUT, DB_INTERVAL
  fs,           \* the filesystem at FLAG_FILE
  db,           \* the database: answers SELECT 1, port open
  held,         \* held[i]: instance i holds the flock on LOCK_FILE
  pc,           \* position of every instance in init.sh
  db_elapsed,   \* wait_for_database's counter
  db_wall,      \* seconds spent so far inside the current call of wait_for_database (saturates at MaxWall)
  seeder_rc,    \* result of python -m db.seeder in this run
  outcome,      \* terminal outcome of the run
  acquired,     \* history: the run has held the lock
  wrote,        \* history: the run changed the marker
  seederRuns,   \* history: number of seeder invocations
  flag0,        \* history: the marker was present before any instance started
  dbHist,       \* history: the database has answered SELECT 1 "always", "never" or "mixed" so far
  firstPoll,    \* history: result of the run's first functional check
  afterFail     \* history: the FAILED outcomes (action-failed, marker-write-failed) of earlier runs when the run took the lock at once, marker absent

vars == <<env, fs, db, held, pc, db_elapsed, db_wall, seeder_rc, outcome,
          acquired, wrote, seederRuns, flag0, dbHist, firstPoll, afterFail>>

Min(a, b) == IF a < b THEN a ELSE b

(* ---------------- the completion marker ---------------- *)
\* fs.flag: what FLAG_FILE is; fs.inner: FLAG_FILE/.seeder_completed is a file;
\* fs.parent: the directory that contains FLAG_FILE exists
FsStates ==
  { f \in [flag : {"none", "file", "dir"}, inner : BOOLEAN, parent : BOOLEAN] :
      /\ (f.inner => f.flag = "dir")
      /\ (f.flag # "none" => f.parent) }

\* only the directory representation is looked at
check_flag_inner_only(f) == f.flag = "dir" /\ f.inner

\* only the plain-file representation is looked at
check_flag_file_only(f) == f.flag = "file"

check_flag_exists(f) ==
  IF f.flag = "file" THEN TRUE
  ELSE IF f.flag = "dir" /\ f.inner THEN TRUE
  ELSE FALSE

\* the directory representation is not handled: the marker path itself is touched
target_file_flag_only(f) == "flag"

\* the file create_flag touches
target_file(f) == IF f.flag = "dir" THEN "inner" ELSE "flag"

\* touch "$target_file": fails when the directory of the target is missing or
\* the filesystem refuses the write; otherwise the target exists afterwards
touch(f, io_ok) ==
  IF target_file(f) = "inner"
    THEN IF io_ok THEN [rc |-> 0, fs |-> [f EXCEPT !.inner = TRUE]]
                  ELSE [rc |-> 1, fs |-> f]
    ELSE IF io_ok /\ f.parent THEN [rc |-> 0, fs |-> [f EXCEPT !.flag = "file"]]
                              ELSE [rc |-> 1, fs |-> f]

\* [ -f "$target_file" ]
is_file(f, t) == IF t = "inner" THEN f.flag = "dir" /\ f.inner ELSE f.flag = "file"

\* create_flag without the checks of touch and of the read-back
create_flag_unchecked(f, io_ok) == [rc |-> 0, fs |-> touch(f, io_ok).fs]

create_flag(f, io_ok) ==
  LET t == target_file(f)
      r == touch(f, io_ok)
  IN  IF r.rc # 0 THEN [rc |-> 1, fs |-> r.fs]
      ELSE IF ~is_file(r.fs, t) THEN [rc |-> 1, fs |-> r.fs]
      ELSE [rc |-> 0, fs |-> r.fs]

(* ---------------- the lock ---------------- *)
\* a lock that excludes nobody (a shared lock, or a lock file private to the container)
LockFreeShared(i) == TRUE

\* flock on fd 200: the exclusive lock is granted iff no other open file
\* description holds it
LockFree(i) == \A j \in Inst \ {i} : ~held[j]

\* the script ends but fd 200 stays open (script sourced into a surviving shell)
ProcExitLeak(i, o) ==
  /\ pc' = [pc EXCEPT ![i] = "exit"]
  /\ outcome' = [outcome EXCEPT ![i] = o]
  /\ db_elapsed' = [db_elapsed EXCEPT ![i] = 0]
  /\ UNCHANGED held

\* process exit closes fd 200, which drops the lock; the shell's variables are gone
ProcExit(i, o) ==
  /\ pc' = [pc EXCEPT ![i] = "exit"]
  /\ outcome' = [outcome EXCEPT ![i] = o]
  /\ held' = [held EXCEPT ![i] = FALSE]
  /\ db_elapsed' = [db_elapsed EXCEPT ![i] = 0]

\* exit 1 on every failure branch; the script's last command returns 0 otherwise
ExitStatus(o) == IF o \in {"SKIPPED", "COMPLETED"} THEN 0 ELSE 1

(* ---------------- environments ---------------- *)
EnvAll ==
  [pg_isready : BOOLEAN, psql : BOOLEAN, nc : BOOLEAN,
   db_url : {"set", "empty", "unset"}, app_dir : BOOLEAN,
   db_timeout : Timeouts, db_interval : Intervals]

Faults(e) ==
  (IF e.pg_isready THEN 0 ELSE 1) + (IF e.db_url = "set" THEN 0 ELSE 1)
  + (IF e.app_dir THEN 0 ELSE 1)

\* containers with at most one of: pg_isready missing, DATABASE_URL missing, /app missing
Envs == { e \in EnvAll : Faults(e) <= 1 }

DbStates == { d \in [ready : BOOLEAN, port : BOOLEAN] : d.ready => d.port }

Init ==
  /\ env \in Envs
  /\ fs \in FsStates
  /\ db \in DbStates
  /\ held = [i \in Inst |-> FALSE]
  /\ pc = [i \in Inst |-> "flock_n"]
  /\ db_elapsed = [i \in Inst |-> 0]
  /\ db_wall = [i \in Inst |-> 0]
  /\ seeder_rc = [i \in Inst |-> "none"]
  /\ outcome = [i \in Inst |-> "NONE"]
  /\ acquired = [i \in Inst |-> FALSE]
  /\ wrote = [i \in Inst |-> FALSE]
  /\ seederRuns = 0
  /\ flag0 = check_flag_exists(fs)
  /\ dbHist = IF db.ready THEN "always" ELSE "never"
  /\ firstPoll = [i \in Inst |-> "none"]
  /\ afterFail = [i \in Inst |-> {}]

(* ---------------- init.sh, one action per step ---------------- *)
\* the lock file is opened at the marker's path: exec 200> creates the marker
TryLockOnFlagFile(i) ==
  /\ pc[i] = "flock_n"
  /\ fs' = IF fs.flag = "none" /\ fs.parent THEN [fs EXCEPT !.flag = "file"] ELSE fs
  /\ IF LockFree(i)
       THEN /\ held' = [held EXCEPT ![i] = TRUE]
            /\ acquired' = [acquired EXCEPT ![i] = TRUE]
            /\ pc' = [pc EXCEPT ![i] = "check_flag"]
            /\ afterFail' = [afterFail EXCEPT ![i] =
                 IF check_flag_exists(fs) THEN {}
                 ELSE { outcome[j] : j \in Inst } \cap
                        {"FAILED_action_failed", "FAILED_marker_write_failed"}]
       ELSE /\ pc' = [pc EXCEPT ![i] = "flock_w"]
            /\ UNCHANGED <<held, acquired, afterFail>>
  /\ UNCHANGED <<env, db, db_elapsed, db_wall, seeder_rc, outcome, wrote,
                 seederRuns, flag0, dbHist, firstPoll>>

\* exec 200>"$LOCK_FILE"; flock -n 200
TryLock(i) ==
  /\ pc[i] = "flock_n"
  /\ IF LockFree(i)
       THEN /\ held' = [held EXCEPT ![i] = TRUE]
            /\ acquired' = [acquired EXCEPT ![i] = TRUE]
            /\ pc' = [pc EXCEPT ![i] = "check_flag"]
            /\ afterFail' = [afterFail EXCEPT ![i] =
                 IF check_flag_exists(fs) THEN {}
                 ELSE { outcome[j] : j \in Inst } \cap
                        {"FAILED_action_failed", "FAILED_marker_write_failed"}]
       ELSE /\ pc' = [pc EXCEPT ![i] = "flock_w"]
            /\ UNCHANGED <<held, acquired, afterFail>>
  /\ UNCHANGED <<env, fs, db, db_elapsed, db_wall, seeder_rc, outcome, wrote,
                 seederRuns, flag0, dbHist, firstPoll>>

\* flock -w 300 200 returns with the lock
LockWaitAcquire(i) ==
  /\ pc[i] = "flock_w"
  /\ LockFree(i)
  /\ held' = [held EXCEPT ![i] = TRUE]
  /\ acquired' = [acquired EXCEPT ![i] = TRUE]
  /\ pc' = [pc EXCEPT ![i] = "check_flag"]
  /\ UNCHANGED <<afterFail, env, fs, db, db_elapsed, db_wall, seeder_rc, outcome, wrote,
                 seederRuns, flag0, dbHist, firstPoll>>

\* the lock-timeout path unlocks the lock file for every instance before it exits
LockWaitTimeoutUnlocksAll(i) ==
  /\ pc[i] = "flock_w"
  /\ ~LockFree(i)
  /\ pc' = [pc EXCEPT ![i] = "exit"]
  /\ outcome' = [outcome EXCEPT ![i] = "FAILED_lock_timeout"]
  /\ held' = [j \in Inst |-> FALSE]
  /\ db_elapsed' = [db_elapsed EXCEPT ![i] = 0]
  /\ UNCHANGED <<afterFail, env, fs, db, db_wall, seeder_rc, acquired, wrote,
                 seederRuns, flag0, dbHist, firstPoll>>

\* the exit 1 after flock -w 300 200 is missing: the script goes on without the lock
LockWaitTimeoutIgnored(i) ==
  /\ pc[i] = "flock_w"
  /\ ~LockFree(i)
  /\ pc' = [pc EXCEPT ![i] = "check_flag"]
  /\ UNCHANGED <<afterFail, env, fs, db, held, db_elapsed, db_wall, seeder_rc, outcome, acquired,
                 wrote, seederRuns, flag0, dbHist, firstPoll>>

\* flock -w 300 200 gives up: exit 1
LockWaitTimeout(i) ==
  /\ pc[i] = "flock_w"
  /\ ~LockFree(i)
  /\ ProcExit(i, "FAILED_lock_timeout")
  /\ UNCHANGED <<afterFail, env, fs, db, db_wall, seeder_rc, acquired, wrote,
                 seederRuns, flag0, dbHist, firstPoll>>

\* the test of the marker is inverted
CheckFlagNegated(i) ==
  /\ pc[i] = "check_flag"
  /\ pc' = [pc EXCEPT ![i] = IF check_flag_exists(fs) THEN "wait_pre" ELSE "already_seeded"]
  /\ UNCHANGED <<afterFail, env, fs, db, held, db_elapsed, db_wall, seeder_rc, outcome, acquired,
                 wrote, seederRuns, flag0, dbHist, firstPoll>>

\* the marker is not looked at again under the lock
CheckFlagNoRecheck(i) ==
  /\ pc[i] = "check_flag"
  /\ pc' = [pc EXCEPT ![i] = "wait_pre"]
  /\ UNCHANGED <<afterFail, env, fs, db, held, db_elapsed, db_wall, seeder_rc, outcome, acquired,
                 wrote, seederRuns, flag0, dbHist, firstPoll>>

\* if ! check_flag_exists
CheckFlag(i) ==
  /\ pc[i] = "check_flag"
  /\ pc' = [pc EXCEPT ![i] = IF check_flag_exists(fs) THEN "already_seeded" ELSE "wait_pre"]
  /\ UNCHANGED <<afterFail, env, fs, db, held, db_elapsed, db_wall, seeder_rc, outcome, acquired,
                 wrote, seederRuns, flag0, dbHist, firstPoll>>

\* the else branch seeds again although the marker was found
AlreadySeededReseeds(i) ==
  /\ pc[i] = "already_seeded"
  /\ pc' = [pc EXCEPT ![i] = "wait_pre"]
  /\ UNCHANGED <<afterFail, env, fs, db, held, db_elapsed, db_wall, seeder_rc, outcome, acquired,
                 wrote, seederRuns, flag0, dbHist, firstPoll>>

\* the else branch removes the marker it found
AlreadySeededClears(i) ==
  /\ pc[i] = "already_seeded"
  /\ pc' = [pc EXCEPT ![i] = "release"]
  /\ fs' = [fs EXCEPT !.flag = IF fs.flag = "file" THEN "none" ELSE fs.flag, !.inner = FALSE]
  /\ UNCHANGED <<afterFail, env, db, held, db_elapsed, db_wall, seeder_rc, outcome, acquired,
                 wrote, seederRuns, flag0, dbHist, firstPoll>>

\* the else branch: report which representation was found
AlreadySeeded(i) ==
  /\ pc[i] = "already_seeded"
  /\ pc' = [pc EXCEPT ![i] = "release"]
  /\ UNCHANGED <<afterFail, env, fs, db, held, db_elapsed, db_wall, seeder_rc, outcome, acquired,
                 wrote, seederRuns, flag0, dbHist, firstPoll>>

\* wait_for_database without the test for pg_isready
WaitPreNoToolCheck(i) ==
  /\ pc[i] = "wait_pre"
  /\ IF env.db_url = "unset"
       THEN ProcExit(i, "FAILED_unbound_variable")
       ELSE IF env.db_url = "empty"
         THEN ProcExit(i, "FAILED_dependency_timeout")
         ELSE /\ pc' = [pc EXCEPT ![i] = "settle"]
              /\ db_elapsed' = [db_elapsed EXCEPT ![i] = 0]
              /\ UNCHANGED <<held, outcome>>
  /\ UNCHANGED <<afterFail, env, fs, db, db_wall, seeder_rc, acquired, wrote, seederRuns,
                 flag0, dbHist, firstPoll>>

\* wait_for_database, lines 22-30: the tool and variable checks
WaitPre(i) ==
  /\ pc[i] = "wait_pre"
  /\ IF ~env.pg_isready
       THEN ProcExit(i, "FAILED_dependency_timeout")
       ELSE IF env.db_url = "unset"
         THEN ProcExit(i, "FAILED_unbound_variable")
         ELSE IF env.db_url = "empty"
           THEN ProcExit(i, "FAILED_dependency_timeout")
           ELSE /\ pc' = [pc EXCEPT ![i] = "settle"]
                /\ db_elapsed' = [db_elapsed EXCEPT ![i] = 0]
                /\ UNCHANGED <<held, outcome>>
  /\ UNCHANGED <<afterFail, env, fs, db, db_wall, seeder_rc, acquired, wrote, seederRuns,
                 flag0, dbHist, firstPoll>>

\* sleep 15
Settle(i) ==
  /\ pc[i] = "settle"
  /\ db_wall' = [db_wall EXCEPT ![i] = Min(db_wall[i] + SettleDelay, MaxWall)]
  /\ pc' = [pc EXCEPT ![i] = "db_loop"]
  /\ UNCHANGED <<afterFail, env, fs, db, held, db_elapsed, seeder_rc, outcome, acquired, wrote,
                 seederRuns, flag0, dbHist, firstPoll>>

\* the caller ignores the TIMEOUT of wait_for_database and goes on
DbPollIgnoresTimeout(i) ==
  /\ pc[i] = "db_loop"
  /\ pc' = [pc EXCEPT ![i] =
       IF ~(db_elapsed[i] < env.db_timeout) \/ (env.psql /\ db.ready) THEN "safe_cd" ELSE "db_nc"]
  /\ db_wall' = [db_wall EXCEPT ![i] =
       IF ~(db_elapsed[i] < env.db_timeout) \/ (env.psql /\ db.ready) THEN 0 ELSE db_wall[i]]
  /\ firstPoll' = [firstPoll EXCEPT ![i] =
       IF firstPoll[i] # "none" \/ ~(db_elapsed[i] < env.db_timeout) THEN firstPoll[i]
       ELSE IF env.psql /\ db.ready THEN "ok" ELSE "fail"]
  /\ UNCHANGED <<db_elapsed, held, outcome>>
  /\ UNCHANGED <<afterFail, env, fs, db, seeder_rc, acquired, wrote,
                 seederRuns, flag0, dbHist>>

\* the loop test is -le instead of -lt
DbPollLe(i) ==
  /\ pc[i] = "db_loop"
  /\ IF ~(db_elapsed[i] <= env.db_timeout)
       THEN /\ ProcExit(i, "FAILED_dependency_timeout")
            /\ db_wall' = [db_wall EXCEPT ![i] = 0]
            /\ UNCHANGED firstPoll
       ELSE /\ pc' = [pc EXCEPT ![i] = IF env.psql /\ db.ready THEN "safe_cd" ELSE "db_nc"]
            /\ db_wall' = [db_wall EXCEPT ![i] = IF env.psql /\ db.ready THEN 0 ELSE db_wall[i]]
            /\ firstPoll' = [firstPoll EXCEPT ![i] =
                 IF firstPoll[i] # "none" THEN firstPoll[i]
                 ELSE IF env.psql /\ db.ready THEN "ok" ELSE "fail"]
            /\ UNCHANGED <<db_elapsed, held, outcome>>
  /\ UNCHANGED <<afterFail, env, fs, db, seeder_rc, acquired, wrote,
                 seederRuns, flag0, dbHist>>

\* while [ $db_elapsed -lt $db_timeout ]; psql "$SYNC_URL" -c "SELECT 1;"
DbPoll(i) ==
  /\ pc[i] = "db_loop"
  /\ IF ~(db_elapsed[i] < env.db_timeout)
       THEN /\ ProcExit(i, "FAILED_dependency_timeout")
            /\ db_wall' = [db_wall EXCEPT ![i] = 0]
            /\ UNCHANGED firstPoll
       ELSE /\ pc' = [pc EXCEPT ![i] = IF env.psql /\ db.ready THEN "safe_cd" ELSE "db_nc"]
            /\ db_wall' = [db_wall EXCEPT ![i] = IF env.psql /\ db.ready THEN 0 ELSE db_wall[i]]
            /\ firstPoll' = [firstPoll EXCEPT ![i] =
                 IF firstPoll[i] # "none" THEN firstPoll[i]
                 ELSE IF env.psql /\ db.ready THEN "ok" ELSE "fail"]
            /\ UNCHANGED <<db_elapsed, held, outcome>>
  /\ UNCHANGED <<afterFail, env, fs, db, seeder_rc, acquired, wrote,
                 seederRuns, flag0, dbHist>>

\* an open port is taken for a database that is ready
DbNcPortMeansReady(i) ==
  /\ pc[i] = "db_nc"
  /\ IF env.nc /\ db.port
       THEN /\ db_wall' = [db_wall EXCEPT ![i] = 0]
            /\ pc' = [pc EXCEPT ![i] = "safe_cd"]
            /\ UNCHANGED db_elapsed
       ELSE /\ db_wall' = [db_wall EXCEPT ![i] = Min(db_wall[i] + env.db_interval, MaxWall)]
            /\ db_elapsed' = [db_elapsed EXCEPT ![i] = db_elapsed[i] + env.db_interval]
            /\ pc' = [pc EXCEPT ![i] = "db_loop"]
  /\ UNCHANGED <<afterFail, env, fs, db, held, seeder_rc, outcome, acquired, wrote, seederRuns,
                 flag0, dbHist, firstPoll>>

\* nc -z: port open -> sleep 2; continue.  Otherwise sleep $db_interval and count it
DbNc(i) ==
  /\ pc[i] = "db_nc"
  /\ IF env.nc /\ db.port
       THEN /\ db_wall' = [db_wall EXCEPT ![i] = Min(db_wall[i] + NcSleep, MaxWall)]
            /\ UNCHANGED db_elapsed
       ELSE /\ db_wall' = [db_wall EXCEPT ![i] = Min(db_wall[i] + env.db_interval, MaxWall)]
            /\ db_elapsed' = [db_elapsed EXCEPT ![i] = db_elapsed[i] + env.db_interval]
  /\ pc' = [pc EXCEPT ![i] = "db_loop"]
  /\ UNCHANGED <<afterFail, env, fs, db, held, seeder_rc, outcome, acquired, wrote, seederRuns,
                 flag0, dbHist, firstPoll>>

\* plain cd /app, its status ignored
SafeCdUnchecked(i) ==
  /\ pc[i] = "safe_cd"
  /\ pc' = [pc EXCEPT ![i] = "seeder"]
  /\ UNCHANGED <<afterFail, env, fs, db, held, db_elapsed, db_wall, seeder_rc, outcome, acquired,
                 wrote, seederRuns, flag0, dbHist, firstPoll>>

\* if ! safe_cd /app
SafeCd(i) ==
  /\ pc[i] = "safe_cd"
  /\ IF env.app_dir
       THEN /\ pc' = [pc EXCEPT ![i] = "seeder"]
            /\ UNCHANGED <<db_elapsed, held, outcome>>
       ELSE ProcExit(i, "FAILED_cd")
  /\ UNCHANGED <<afterFail, env, fs, db, db_wall, seeder_rc, acquired, wrote,
                 seederRuns, flag0, dbHist, firstPoll>>

\* python -m db.seeder is started
SeederStart(i) ==
  /\ pc[i] = "seeder"
  /\ pc' = [pc EXCEPT ![i] = "seeding"]
  /\ seederRuns' = seederRuns + 1
  /\ UNCHANGED <<afterFail, env, fs, db, held, db_elapsed, db_wall, seeder_rc, outcome, acquired,
                 wrote, flag0, dbHist, firstPoll>>

\* the failure branch records completion before it exits
SeederReturnMarksOnFail(i) ==
  /\ pc[i] = "seeding"
  /\ \E rc \in {"ok", "fail"} :
       /\ seeder_rc' = [seeder_rc EXCEPT ![i] = rc]
       /\ IF rc = "ok"
            THEN /\ pc' = [pc EXCEPT ![i] = "create_flag"]
                 /\ UNCHANGED <<db_elapsed, held, outcome, fs>>
            ELSE /\ ProcExit(i, "FAILED_action_failed")
                 /\ fs' = create_flag(fs, TRUE).fs
  /\ UNCHANGED <<afterFail, env, db, db_wall, acquired, wrote, seederRuns,
                 flag0, dbHist, firstPoll>>

\* python -m db.seeder returns; on failure flock -u 200; exit 1
SeederReturn(i) ==
  /\ pc[i] = "seeding"
  /\ \E rc \in {"ok", "fail"} :
       /\ seeder_rc' = [seeder_rc EXCEPT ![i] = rc]
       /\ IF rc = "ok"
            THEN /\ pc' = [pc EXCEPT ![i] = "create_flag"]
                 /\ UNCHANGED <<db_elapsed, held, outcome>>
            ELSE ProcExit(i, "FAILED_action_failed")
  /\ UNCHANGED <<afterFail, env, fs, db, db_wall, acquired, wrote, seederRuns,
                 flag0, dbHist, firstPoll>>

\* the exit 1 of the create_flag failure branch is missing
CreateFlagFailureIgnored(i) ==
  /\ pc[i] = "create_flag"
  /\ \E io_ok \in BOOLEAN :
       LET r == create_flag(fs, io_ok) IN
         /\ fs' = r.fs
         /\ wrote' = [wrote EXCEPT ![i] = (r.fs # fs)]
  /\ pc' = [pc EXCEPT ![i] = "release"]
  /\ UNCHANGED <<afterFail, env, db, held, db_elapsed, db_wall, seeder_rc, outcome, acquired,
                 seederRuns, flag0, dbHist, firstPoll>>

\* if ! create_flag; on failure flock -u 200; exit 1
CreateFlag(i) ==
  /\ pc[i] = "create_flag"
  /\ \E io_ok \in BOOLEAN :
       LET r == create_flag(fs, io_ok) IN
         /\ fs' = r.fs
         /\ wrote' = [wrote EXCEPT ![i] = (r.fs # fs)]
         /\ IF r.rc = 0
              THEN /\ pc' = [pc EXCEPT ![i] = "release"]
                   /\ UNCHANGED <<db_elapsed, held, outcome>>
              ELSE ProcExit(i, "FAILED_marker_write_failed")
  /\ UNCHANGED <<afterFail, env, db, db_wall, seeder_rc, acquired, seederRuns,
                 flag0, dbHist, firstPoll>>

\* flock -u 200; the script ends with status 0
Release(i) ==
  /\ pc[i] = "release"
  /\ ProcExit(i, IF seeder_rc[i] = "ok" THEN "COMPLETED" ELSE "SKIPPED")
  /\ UNCHANGED <<afterFail, env, fs, db, db_wall, seeder_rc, acquired, wrote,
                 seederRuns, flag0, dbHist, firstPoll>>

(* ---------------- the database, outside the script ---------------- *)
DbChange ==
  /\ \E d \in DbStates \ {db} :
       /\ db' = d
       /\ dbHist' = IF d.ready = db.ready THEN dbHist ELSE "mixed"
  /\ UNCHANGED <<afterFail, env, fs, held, pc, db_elapsed, db_wall, seeder_rc, outcome, acquired,
                 wrote, seederRuns, flag0, firstPoll>>

Proc(i) ==
  \/ TryLock(i) \/ LockWaitAcquire(i) \/ LockWaitTimeout(i)
  \/ CheckFlag(i) \/ AlreadySeeded(i)
  \/ WaitPre(i) \/ Settle(i) \/ DbPoll(i) \/ DbNc(i)
  \/ SafeCd(i) \/ SeederStart(i) \/ SeederReturn(i) \/ CreateFlag(i) \/ Release(i)

Next == (\E i \in Inst : Proc(i)) \/ DbChange

Spec == Init /\ [][Next]_vars

\* every instance is scheduled and the flock timer runs; the database is free
FairSpec == Spec /\ \A i \in Inst : WF_vars(Proc(i))

(* ---------------- entrypoint.sh around init.sh ---------------- *)
\* the containers of the entrypoint runs: one setting of DB_TIMEOUT and DB_INTERVAL
EnvsEntry == { e \in Envs : e.db_timeout = MaxTimeout /\ e.db_interval = MaxInterval }

\* the container starts entrypoint.sh
InitEntry ==
  /\ env \in EnvsEntry
  /\ fs \in FsStates
  /\ db \in DbStates
  /\ held = [i \in Inst |-> FALSE]
  /\ pc = [i \in Inst |-> "entry"]
  /\ db_elapsed = [i \in Inst |-> 0]
  /\ db_wall = [i \in Inst |-> 0]
  /\ seeder_rc = [i \in Inst |-> "none"]
  /\ outcome = [i \in Inst |-> "NONE"]
  /\ acquired = [i \in Inst |-> FALSE]
  /\ wrote = [i \in Inst |-> FALSE]
  /\ seederRuns = 0
  /\ flag0 = check_flag_exists(fs)
  /\ dbHist = IF db.ready THEN "always" ELSE "never"
  /\ firstPoll = [i \in Inst |-> "none"]
  /\ afterFail = [i \in Inst |-> {}]

\* a missing /app/init.sh ends the entrypoint instead of being skipped
EntryStartRequiresInit(i) ==
  /\ pc[i] = "entry"
  /\ \E has_init \in BOOLEAN :
       pc' = [pc EXCEPT ![i] = IF has_init THEN "flock_n" ELSE "entry_exit"]
  /\ UNCHANGED <<afterFail, env, fs, db, held, db_elapsed, db_wall, seeder_rc, outcome, acquired,
                 wrote, seederRuns, flag0, dbHist, firstPoll>>

\* if [ -f "/app/init.sh" ]; then bash /app/init.sh; else (warning); fi
EntryStart(i) ==
  /\ pc[i] = "entry"
  /\ \E has_init \in BOOLEAN :
       pc' = [pc EXCEPT ![i] = IF has_init THEN "flock_n" ELSE "app"]
  /\ UNCHANGED <<afterFail, env, fs, db, held, db_elapsed, db_wall, seeder_rc, outcome, acquired,
                 wrote, seederRuns, flag0, dbHist, firstPoll>>

\* without set -e the status of bash /app/init.sh is ignored
EntryAfterInitNoErrexit(i) ==
  /\ pc[i] = "exit"
  /\ pc' = [pc EXCEPT ![i] = "app"]
  /\ UNCHANGED <<afterFail, env, fs, db, held, db_elapsed, db_wall, seeder_rc, outcome, acquired,
                 wrote, seederRuns, flag0, dbHist, firstPoll>>

\* bash /app/init.sh has returned: under set -e a non-zero status ends the
\* entrypoint with that status; otherwise exec python main.py
EntryAfterInit(i) ==
  /\ pc[i] = "exit"
  /\ pc' = [pc EXCEPT ![i] = IF ExitStatus(outcome[i]) = 0 THEN "app" ELSE "entry_exit"]
  /\ UNCHANGED <<afterFail, env, fs, db, held, db_elapsed, db_wall, seeder_rc, outcome, acquired,
                 wrote, seederRuns, flag0, dbHist, firstPoll>>

NextEntry == Next \/ \E i \in Inst : EntryStart(i) \/ EntryAfterInit(i)

SpecEntry == InitEntry /\ [][NextEntry]_vars

(* ---------------- abnormal termination of a lock holder ---------------- *)
\* a lock that is not tied to the open file (a lock file used as a mutex): the
\* death of the holder leaves it taken
KillKeepsLock(i) ==
  /\ held[i] /\ pc[i] \notin {"exit", "orphan"}
  /\ pc' = [pc EXCEPT ![i] = "exit"]
  /\ outcome' = [outcome EXCEPT ![i] = "KILLED"]
  /\ UNCHANGED <<afterFail, env, fs, db, held, db_elapsed, db_wall, seeder_rc, acquired, wrote,
                 seederRuns, flag0, dbHist, firstPoll>>

\* the shell that runs init.sh is killed while it holds the lock.  Its fd 200
\* is closed, which drops the flock, unless python -m db.seeder is running:
\* the child has inherited fd 200 and keeps the lock until it ends
Kill(i) ==
  /\ held[i] /\ pc[i] \notin {"exit", "orphan"}
  /\ IF pc[i] = "seeding"
       THEN /\ pc' = [pc EXCEPT ![i] = "orphan"]
            /\ outcome' = [outcome EXCEPT ![i] = "KILLED"]
            /\ UNCHANGED <<held, db_elapsed>>
       ELSE ProcExit(i, "KILLED")
  /\ UNCHANGED <<afterFail, env, fs, db, db_wall, seeder_rc, acquired, wrote,
                 seederRuns, flag0, dbHist, firstPoll>>

\* the orphaned seeder ends: the last copy of fd 200 is closed
OrphanEnd(i) ==
  /\ pc[i] = "orphan"
  /\ pc' = [pc EXCEPT ![i] = "exit"]
  /\ held' = [held EXCEPT ![i] = FALSE]
  /\ UNCHANGED <<afterFail, env, fs, db, db_elapsed, db_wall, seeder_rc, outcome, acquired,
                 wrote, seederRuns, flag0, dbHist, firstPoll>>

\* the database keeps the state it has when the instances start
NextCrash == \E i \in Inst : Proc(i) \/ Kill(i) \/ OrphanEnd(i)

\* init.sh started in the containers of EnvsEntry
InitCrash ==
  /\ env \in EnvsEntry
  /\ fs \in FsStates
  /\ db \in DbStates
  /\ held = [i \in Inst |-> FALSE]
  /\ pc = [i \in Inst |-> "flock_n"]
  /\ db_elapsed = [i \in Inst |-> 0]
  /\ db_wall = [i \in Inst |-> 0]
  /\ seeder_rc = [i \in Inst |-> "none"]
  /\ outcome = [i \in Inst |-> "NONE"]
  /\ acquired = [i \in Inst |-> FALSE]
  /\ wrote = [i \in Inst |-> FALSE]
  /\ seederRuns = 0
  /\ flag0 = check_flag_exists(fs)
  /\ dbHist = IF db.ready THEN "always" ELSE "never"
  /\ firstPoll = [i \in Inst |-> "none"]
  /\ afterFail = [i \in Inst |-> {}]

SpecCrash == InitCrash /\ [][NextCrash]_vars

\* the seeder returns
FairSpecCrash == SpecCrash /\ \A i \in Inst : WF_vars(OrphanEnd(i))

(* ---------------- form_com_offer/init.sh: the script without a lock ---------------- *)
\* create_flag of form_com_offer/init.sh: touch, unchecked, then echo
create_flag_fco(f, io_ok) == [rc |-> 0, fs |-> touch(f, io_ok).fs]

\* the script starts at if ! check_flag_exists, in the containers of EnvsEntry
InitFco ==
  /\ env \in EnvsEntry
  /\ fs \in FsStates
  /\ db \in DbStates
  /\ held = [i \in Inst |-> FALSE]
  /\ pc = [i \in Inst |-> "check_flag"]
  /\ db_elapsed = [i \in Inst |-> 0]
  /\ db_wall = [i \in Inst |-> 0]
  /\ seeder_rc = [i \in Inst |-> "none"]
  /\ outcome = [i \in Inst |-> "NONE"]
  /\ acquired = [i \in Inst |-> FALSE]
  /\ wrote = [i \in Inst |-> FALSE]
  /\ seederRuns = 0
  /\ flag0 = check_flag_exists(fs)
  /\ dbHist = IF db.ready THEN "always" ELSE "never"
  /\ firstPoll = [i \in Inst |-> "none"]
  /\ afterFail = [i \in Inst |-> {}]

\* wait_for_database, lines 14-22; no set -u: an unset DATABASE_URL reads as empty
FcoWaitPre(i) ==
  /\ pc[i] = "wait_pre"
  /\ IF ~env.pg_isready \/ env.db_url # "set"
       THEN ProcExit(i, "FAILED_dependency_timeout")
       ELSE /\ pc' = [pc EXCEPT ![i] = "settle"]
            /\ db_elapsed' = [db_elapsed EXCEPT ![i] = 0]
            /\ UNCHANGED <<held, outcome>>
  /\ UNCHANGED <<afterFail, env, fs, db, db_wall, seeder_rc, acquired, wrote, seederRuns,
                 flag0, dbHist, firstPoll>>

\* cd /app, its status ignored
FcoCd(i) ==
  /\ pc[i] = "safe_cd"
  /\ pc' = [pc EXCEPT ![i] = "seeder"]
  /\ UNCHANGED <<afterFail, env, fs, db, held, db_elapsed, db_wall, seeder_rc, outcome, acquired,
                 wrote, seederRuns, flag0, dbHist, firstPoll>>

\* python -m db.seeder returns; if [ $? -eq 0 ] ... else exit 1
FcoSeederReturn(i) ==
  /\ pc[i] = "seeding"
  /\ \E rc \in {"ok", "fail"} :
       /\ seeder_rc' = [seeder_rc EXCEPT ![i] = rc]
       /\ IF rc = "ok"
            THEN /\ pc' = [pc EXCEPT ![i] = "create_flag"]
                 /\ UNCHANGED <<db_elapsed, held, outcome>>
            ELSE ProcExit(i, "FAILED_action_failed")
  /\ UNCHANGED <<afterFail, env, fs, db, db_wall, acquired, wrote, seederRuns,
                 flag0, dbHist, firstPoll>>

\* create_flag, its status ignored
FcoCreateFlag(i) ==
  /\ pc[i] = "create_flag"
  /\ \E io_ok \in BOOLEAN :
       LET r == create_flag_fco(fs, io_ok) IN
         /\ fs' = r.fs
         /\ wrote' = [wrote EXCEPT ![i] = (r.fs # fs)]
  /\ pc' = [pc EXCEPT ![i] = "release"]
  /\ UNCHANGED <<afterFail, env, db, held, db_elapsed, db_wall, seeder_rc, outcome, acquired,
                 seederRuns, flag0, dbHist, firstPoll>>

\* the script ends with the status of its last echo
FcoEnd(i) ==
  /\ pc[i] = "release"
  /\ ProcExit(i, IF seeder_rc[i] = "ok" THEN "COMPLETED" ELSE "SKIPPED")
  /\ UNCHANGED <<afterFail, env, fs, db, db_wall, seeder_rc, acquired, wrote,
                 seederRuns, flag0, dbHist, firstPoll>>

\* check_flag_exists, the else branch and wait_for_database read as in backend/init.sh
ProcFco(i) ==
  \/ CheckFlag(i) \/ AlreadySeeded(i)
  \/ FcoWaitPre(i) \/ Settle(i) \/ DbPoll(i) \/ DbNc(i)
  \/ FcoCd(i) \/ SeederStart(i) \/ FcoSeederReturn(i) \/ FcoCreateFlag(i) \/ FcoEnd(i)

NextFco == (\E i \in Inst : ProcFco(i)) \/ DbChange

SpecFco == InitFco /\ [][NextFco]_vars

TypeOK ==
  /\ env \in Envs /\ fs \in FsStates /\ db \in DbStates
  /\ held \in [Inst -> BOOLEAN]
  /\ \A i \in Inst : db_wall[i] \in 0..MaxWall /\ db_elapsed[i] \in 0..(MaxTimeout + MaxInterval)
  /\ seederRuns \in 0..NumInstances
(* ======================= properties ======================= *)
AllDone == \A i \in Inst : pc[i] = "exit"
Completed == { i \in Inst : outcome[i] = "COMPLETED" }
Skipped == { i \in Inst : outcome[i] = "SKIPPED" }
Failed == { i \in Inst : pc[i] = "exit" /\ ExitStatus(outcome[i]) # 0 }
CriticalSection ==
  {"wait_pre", "settle", "db_loop", "db_nc", "safe_cd", "seeder", "seeding", "create_flag"}
ExactlyOnce ==
  /\ Cardinality(Completed) = 1
  /\ Inst \ Completed = Skipped
  /\ seederRuns = 1

\* C1 (as stated): once all N >= 2 instances launched with the marker absent and
\* a database that always answers have terminated, exactly one has run the
\* seeder and ended COMPLETED, all others ended SKIPPED, and the seeder ran once.
C1_AsStated ==
  (NumInstances >= 2 /\ AllDone /\ ~flag0 /\ dbHist = "always") => ExactlyOnce

\* C1 (amended): the same, for the executions in which no instance ends FAILED.
C1_ExactlyOneSeeds ==
  (NumInstances >= 2 /\ AllDone /\ ~flag0 /\ dbHist = "always" /\ Failed = {}) => ExactlyOnce

C1_Witness ==
  /\ NumInstances >= 2 /\ AllDone /\ ~flag0 /\ dbHist = "always" /\ Failed = {}
  /\ Cardinality(Completed) = 1 /\ Skipped # {}

\* C2: at most one instance holds the lock, and at most one instance is between
\* the start of the dependency wait and the end of the marker write.
C2_MutualExclusion ==
  /\ Cardinality({ i \in Inst : held[i] }) <= 1
  /\ Cardinality({ i \in Inst : pc[i] \in CriticalSection }) <= 1
  /\ \A i \in Inst : pc[i] \in CriticalSection => held[i]

C2_Witness ==
  \E i, j \in Inst : i # j /\ pc[i] = "seeding" /\ held[i] /\ pc[j] = "flock_w"

\* C3 (as stated): if the marker was present before any instance started, no
\* instance ever acquires the lock or runs the seeder, and every instance that
\* has terminated ended SKIPPED.
C3_FastPathTakesNoLock ==
  flag0 => /\ \A i \in Inst : ~acquired[i] /\ ~held[i]
           /\ seederRuns = 0
           /\ \A i \in Inst : pc[i] = "exit" => outcome[i] = "SKIPPED"

\* C4: the step in which a run that acquired the lock terminates, with whatever
\* outcome, leaves the lock free.
C4_LockFreeAfterRun ==
  [][\A i \in Inst :
       (acquired[i] /\ pc[i] # "exit" /\ pc'[i] = "exit") => \A j \in Inst : ~held'[j]]_vars

C4_Witness ==
  \E i, j \in Inst :
    /\ acquired[i] /\ outcome[i] = "FAILED_marker_write_failed"
    /\ acquired[j] /\ outcome[j] = "FAILED_action_failed"
    /\ \A k \in Inst : ~held[k]

\* the step in which the seeder fails ends the run FAILED(action-failed) with
\* the marker absent and the lock released
SeederFailureStep ==
  \A i \in Inst :
     /\ (pc[i] = "seeding" /\ seeder_rc'[i] = "fail") =>
           /\ outcome'[i] = "FAILED_action_failed"
           /\ ~check_flag_exists(fs')
           /\ \A j \in Inst : ~held'[j]
     /\ (outcome[i] = "NONE" /\ outcome'[i] = "FAILED_action_failed") =>
           pc[i] = "seeding" /\ seeder_rc'[i] = "fail"

\* a terminated run that began after such a failure, found the lock free and
\* had its first functional check answered
RetryDone(j) == pc[j] = "exit" /\ "FAILED_action_failed" \in afterFail[j] /\ firstPoll[j] = "ok"

\* C5 (as stated): a failing seeder ends the run FAILED(action-failed), marker
\* absent, lock released; the next run (lock free, database answering) runs
\* the seeder again and, if the seeder succeeds, ends COMPLETED with the marker set.
C5_AsStated ==
  /\ [][SeederFailureStep]_vars
  /\ [](\A j \in Inst : RetryDone(j) =>
          /\ seeder_rc[j] # "none"
          /\ (seeder_rc[j] = "ok" => outcome[j] = "COMPLETED" /\ check_flag_exists(fs)))

\* C5 (amended): the same, the next run ending COMPLETED with the marker set if
\* its seeder and its marker write both succeed.
C5_RetryAfterFailure ==
  /\ [][SeederFailureStep]_vars
  /\ [](\A j \in Inst : RetryDone(j) =>
          /\ seeder_rc[j] # "none"
          /\ (seeder_rc[j] = "ok" /\ outcome[j] # "FAILED_marker_write_failed"
                => outcome[j] = "COMPLETED" /\ check_flag_exists(fs)))

C5_Witness ==
  \E i, j \in Inst :
    /\ outcome[i] = "FAILED_action_failed"
    /\ RetryDone(j) /\ outcome[j] = "COMPLETED" /\ check_flag_exists(fs)
InWait(i) == pc[i] \in {"db_loop", "db_nc"}

\* C6 (as stated): while the database never answers the functional check, a
\* call of wait_for_database has polled for at most timeout + one poll interval
\* (the settle delay not counted), whatever the TCP-connect check reports.
C6_BoundedWait ==
  \A i \in Inst :
    (InWait(i) /\ dbHist = "never") =>
       db_wall[i] <= SettleDelay + env.db_timeout + env.db_interval

\* C7 (as stated): every run eventually reaches a terminal outcome.
C7_EveryRunTerminates == \A i \in Inst : <>(pc[i] = "exit")

\* C8: once check_flag_exists is true it stays true; no step unsets the marker.
C8_MarkerMonotonic == [][check_flag_exists(fs) => check_flag_exists(fs')]_vars

C8_Witness ==
  /\ ~flag0 /\ check_flag_exists(fs)
  /\ \E i \in Inst : outcome[i] = "SKIPPED"

\* C9: the marker changes only in a step of the lock holder whose seeder has
\* returned success in the same run, and then from absent to present; a run that
\* ended SKIPPED or FAILED by lock-timeout, dependency-timeout or action-failed
\* has not changed it.
C9_MarkerSetOnlyByHolderAfterSeeder ==
  /\ [][fs' # fs =>
          /\ ~check_flag_exists(fs) /\ check_flag_exists(fs')
          /\ \E i \in Inst :
               /\ held[i] /\ seeder_rc[i] = "ok" /\ pc[i] = "create_flag"
               /\ \A j \in Inst \ {i} : pc'[j] = pc[j]]_vars
  /\ [](\A i \in Inst :
          outcome[i] \in {"SKIPPED", "FAILED_lock_timeout", "FAILED_dependency_timeout",
                          "FAILED_action_failed"} => ~wrote[i])

C9_Witness ==
  \E i, j \in Inst :
    /\ wrote[i] /\ check_flag_exists(fs) /\ ~flag0 /\ held[i] /\ seeder_rc[i] = "ok"
    /\ outcome[j] = "FAILED_lock_timeout"

\* a terminated run that was alone (no other instance has started), found the
\* marker absent and the lock free, had its first poll answered and its seeder succeed
SoloRunDone(i) ==
  /\ pc[i] = "exit" /\ acquired[i]
  /\ \A j \in Inst \ {i} : pc[j] = "flock_n"
  /\ firstPoll[i] = "ok" /\ seeder_rc[i] = "ok"

Scenario_A(i) ==
  /\ outcome[i] = "COMPLETED" /\ ExitStatus(outcome[i]) = 0
  /\ check_flag_exists(fs)
  /\ \A j \in Inst : ~held[j]

\* C10 (as stated): such a run has ended COMPLETED, exit status 0, marker
\* present, lock free.
C10_AsStated == \A i \in Inst : SoloRunDone(i) => Scenario_A(i)

\* C10 (amended): the same for the runs whose marker write succeeded.
C10_ScenarioA ==
  \A i \in Inst :
    (SoloRunDone(i) /\ outcome[i] # "FAILED_marker_write_failed") => Scenario_A(i)

C10_Witness == \E i \in Inst : SoloRunDone(i) /\ Scenario_A(i) /\ wrote[i]
\* wait_for_database is about to return TIMEOUT to instance i
AtTimeout(i) == pc[i] = "db_loop" /\ ~(db_elapsed[i] < env.db_timeout)

\* C11: the step in which the dependency wait returns TIMEOUT ends the run
\* FAILED(dependency-timeout), exit status non-zero, with the seeder not invoked
\* by the run, the marker absent and the lock free.
C11_DependencyTimeout ==
  [][\A i \in Inst :
       (AtTimeout(i) /\ pc'[i] # pc[i]) =>
          /\ pc'[i] = "exit" /\ outcome'[i] = "FAILED_dependency_timeout"
          /\ ExitStatus(outcome'[i]) # 0
          /\ seeder_rc'[i] = "none" /\ seederRuns' = seederRuns
          /\ ~check_flag_exists(fs')
          /\ \A j \in Inst : ~held'[j]]_vars

\* a run ended by a TIMEOUT of the poll loop (the tools and DATABASE_URL were there)
C11_Witness ==
  \E i \in Inst :
    /\ outcome[i] = "FAILED_dependency_timeout" /\ firstPoll[i] = "fail"
    /\ ~check_flag_exists(fs) /\ seederRuns = 0 /\ \A j \in Inst : ~held[j]
FailedCauses ==
  {"FAILED_lock_timeout", "FAILED_dependency_timeout", "FAILED_action_failed",
   "FAILED_marker_write_failed"}

\* C12: a run of init.sh that ended FAILED for one of the four causes has a
\* non-zero exit status and the entrypoint's next step ends it without the
\* application, for good; after SKIPPED or COMPLETED the entrypoint's next step
\* starts the application; the application never runs after a FAILED init.sh.
C12_EntrypointFollowsInit ==
  /\ [][\A i \in Inst :
          /\ (pc[i] = "exit" /\ pc'[i] # "exit") =>
                /\ outcome[i] \in FailedCauses =>
                     ExitStatus(outcome[i]) # 0 /\ pc'[i] = "entry_exit"
                /\ outcome[i] \in {"SKIPPED", "COMPLETED"} => pc'[i] = "app"
          /\ pc[i] = "entry_exit" => pc'[i] = "entry_exit"]_vars
  /\ [](\A i \in Inst : pc[i] = "app" => outcome[i] \notin FailedCauses)

C12_Witness ==
  \E i, j \in Inst :
    /\ pc[i] = "entry_exit" /\ outcome[i] = "FAILED_lock_timeout"
    /\ pc[j] = "app" /\ outcome[j] = "COMPLETED"
C14_FcoExactlyOneSeeds ==
  (~flag0 /\ dbHist = "always") =>
     /\ seederRuns <= 1
     /\ AllDone => Cardinality({ i \in Inst : seeder_rc[i] # "none" }) = 1
\* C15: a non-blocking attempt that finds the lock held by another instance
\* leads to the blocking acquire; the step in which that one gives up ends the
\* run FAILED(lock-timeout), and changes neither the marker nor who holds the
\* lock; a run so ended has never held the lock, waited on the database, run
\* the seeder or written the marker.
C15_LockTimeout ==
  /\ [][\A i \in Inst :
          /\ (pc[i] = "flock_n" /\ ~LockFree(i) /\ pc'[i] # pc[i]) =>
                pc'[i] = "flock_w" /\ held' = held /\ fs' = fs
          /\ (pc[i] = "flock_w" /\ ~LockFree(i) /\ pc'[i] # pc[i]) =>
                /\ pc'[i] = "exit" /\ outcome'[i] = "FAILED_lock_timeout"
                /\ held' = held /\ fs' = fs /\ seederRuns' = seederRuns]_vars
  /\ [](\A i \in Inst :
          outcome[i] = "FAILED_lock_timeout" =>
             /\ ~acquired[i] /\ ~held[i] /\ ~wrote[i]
             /\ firstPoll[i] = "none" /\ seeder_rc[i] = "none")

\* a run gave up on the lock while the other instance still holds it in the seeder
C15_Witness ==
  \E i, j \in Inst :
    /\ outcome[i] = "FAILED_lock_timeout" /\ ~acquired[i]
    /\ held[j] /\ pc[j] = "seeding" /\ ~check_flag_exists(fs)
\* instance i holds the lock with the marker present and has done nothing but
\* look at the marker since it acquired the lock
SkipPath(i) ==
  /\ held[i] /\ check_flag_exists(fs)
  /\ pc[i] \in {"check_flag", "already_seeded", "release"}
  /\ firstPoll[i] = "none" /\ seeder_rc[i] = "none" /\ ~wrote[i]

\* C16: an instance that acquires the lock while the marker is present is then
\* on the skip path; every step of an instance on the skip path leaves the
\* marker and the seeder count unchanged and either stays on the skip path or
\* ends the run SKIPPED with the lock released, without dependency wait and
\* without seeder; the instance can always take that step.  While the marker
\* is present no step invokes the seeder.
C16_MarkerPresentSkips ==
  /\ [][\A i \in Inst :
          /\ (~held[i] /\ held'[i] /\ check_flag_exists(fs)) => SkipPath(i)'
          /\ (SkipPath(i) /\ pc'[i] # pc[i]) =>
                /\ fs' = fs /\ seederRuns' = seederRuns
                /\ \/ SkipPath(i)'
                   \/ /\ pc'[i] = "exit" /\ outcome'[i] = "SKIPPED" /\ ~held'[i]
                      /\ firstPoll'[i] = "none" /\ seeder_rc'[i] = "none"]_vars
  /\ [](\A i \in Inst : SkipPath(i) => ENABLED Proc(i))
  /\ [][check_flag_exists(fs) => seederRuns' = seederRuns]_vars

\* an instance serialized behind a winner that ended COMPLETED has ended SKIPPED
C16_Witness ==
  \E i, j \in Inst :
    /\ outcome[i] = "COMPLETED" /\ wrote[i]
    /\ outcome[j] = "SKIPPED" /\ acquired[j] /\ seederRuns = 1 /\ ~flag0
\* the step that leaves create_flag without the marker ends the run
\* FAILED(marker-write-failed), exit status non-zero, with the lock released;
\* that outcome arises only so, after a seeder that succeeded
MarkerWriteFailureStep ==
  \A i \in Inst :
     /\ (pc[i] = "create_flag" /\ pc'[i] # pc[i] /\ ~check_flag_exists(fs')) =>
           /\ pc'[i] = "exit" /\ outcome'[i] = "FAILED_marker_write_failed"
           /\ ExitStatus(outcome'[i]) # 0
           /\ \A j \in Inst : ~held'[j]
     /\ (outcome[i] = "NONE" /\ outcome'[i] = "FAILED_marker_write_failed") =>
           /\ pc[i] = "create_flag" /\ seeder_rc[i] = "ok"
           /\ ~check_flag_exists(fs')
           /\ \A j \in Inst : ~held'[j]

\* a terminated run that began after a marker write failure, found the lock
\* free and had its first functional check answered
RetryAfterMarkerFailure(j) ==
  pc[j] = "exit" /\ "FAILED_marker_write_failed" \in afterFail[j] /\ firstPoll[j] = "ok"

\* C17: a marker write that fails after a successful seeder ends the run
\* FAILED(marker-write-failed), exit status non-zero, lock released, marker
\* absent; the next run (lock free, database answering) has invoked the seeder
\* again.
C17_MarkerWriteFailure ==
  /\ [][MarkerWriteFailureStep]_vars
  /\ [](\A j \in Inst : RetryAfterMarkerFailure(j) => seeder_rc[j] # "none" /\ seederRuns >= 2)

C17_Witness ==
  \E i, j \in Inst :
    /\ outcome[i] = "FAILED_marker_write_failed" /\ seeder_rc[i] = "ok"
    /\ RetryAfterMarkerFailure(j) /\ seeder_rc[j] = "ok" /\ seederRuns = 2
\* C18 (as stated): when the directory that is to contain the marker is
\* missing, the create_flag step creates it and writes the marker, and the run
\* goes on to end COMPLETED.
C18_CreateFlagMakesParent ==
  [][\A i \in Inst :
       (pc[i] = "create_flag" /\ ~fs.parent /\ pc'[i] # pc[i]) =>
          /\ fs'.parent /\ check_flag_exists(fs')
          /\ pc'[i] = "release" /\ seeder_rc'[i] = "ok"]_vars
\* the marker as the filesystem has it: FLAG_FILE is a plain file, or a
\* directory that contains the file .seeder_completed
MarkerOnDisk(f) == f.flag = "file" \/ (f.flag = "dir" /\ f.inner)

\* C19: for every state of the filesystem check_flag_exists is true iff the
\* marker path is a plain file or a directory containing .seeder_completed, and
\* the step that evaluates it takes the already-seeded branch exactly then.
C19_CheckFlagExists ==
  /\ [](check_flag_exists(fs) <=> MarkerOnDisk(fs))
  /\ [](\A f \in FsStates :
          (f.flag = "none" \/ (f.flag = "dir" /\ ~f.inner)) => ~check_flag_exists(f))
  /\ [][\A i \in Inst :
          (pc[i] = "check_flag" /\ pc'[i] # pc[i]) =>
             /\ MarkerOnDisk(fs) => pc'[i] = "already_seeded"
             /\ ~MarkerOnDisk(fs) => pc'[i] = "wait_pre"]_vars

\* FLAG_FILE is a directory: the first holder found it without the inner file
\* and completed, the second finds the inner file
C19_Witness ==
  \E i, j \in Inst :
    /\ fs.flag = "dir" /\ fs.inner /\ ~flag0
    /\ outcome[i] = "COMPLETED" /\ pc[j] = "already_seeded"
\* C20 (as stated): wait_for_database is left towards the seeder only by a
\* step of the poll loop in which SELECT 1 succeeded; a successful TCP-connect
\* check leads back to the functional check, after a delay shorter than the
\* poll interval.
C20_ReadyOnlyAfterQuery ==
  [][\A i \in Inst :
       /\ (pc[i] \in {"wait_pre", "settle", "db_loop", "db_nc"} /\ pc'[i] = "safe_cd") =>
             pc[i] = "db_loop" /\ env.psql /\ db.ready
       /\ (pc[i] = "db_nc" /\ env.nc /\ db.port /\ pc'[i] # pc[i]) =>
             /\ pc'[i] = "db_loop"
             /\ db_wall[i] + env.db_interval <= MaxWall =>
                  db_wall'[i] - db_wall[i] < env.db_interval]_vars
\* C21 (as stated): in form_com_offer/init.sh a run whose seeder succeeded and
\* whose marker write left the marker absent has terminated with a non-zero
\* exit status, not COMPLETED, and never reaches the final report.
C21_FcoMarkerWriteFailureFails ==
  \A i \in Inst :
    (seeder_rc[i] = "ok" /\ pc[i] # "create_flag" /\ ~check_flag_exists(fs)) =>
       /\ pc[i] = "exit"
       /\ outcome[i] # "COMPLETED" /\ ExitStatus(outcome[i]) # 0
\* C22: the step in which init.sh exits with status 0 ends in a state with the
\* marker present, and so is every later state; an entrypoint that ran init.sh
\* is in the application only with the marker present.
C22_ExitZeroImpliesMarker ==
  /\ [][\A i \in Inst :
          (pc[i] # "exit" /\ pc'[i] = "exit" /\ ExitStatus(outcome'[i]) = 0) =>
             check_flag_exists(fs')]_vars
  /\ [](\A i \in Inst :
          (pc[i] \in {"exit", "app"} /\ outcome[i] # "NONE" /\ ExitStatus(outcome[i]) = 0) =>
             check_flag_exists(fs))
  /\ [](\A i \in Inst : (pc[i] = "app" /\ outcome[i] # "NONE") => check_flag_exists(fs))

\* both entrypoints have started the application, one after seeding, one after skipping
C22_Witness ==
  \E i, j \in Inst :
    /\ pc[i] = "app" /\ outcome[i] = "COMPLETED"
    /\ pc[j] = "app" /\ outcome[j] = "SKIPPED"
    /\ check_flag_exists(fs) /\ ~flag0
\* C23: the seeder count grows only in the step that starts the seeder; an
\* instance enters the dependency wait only from the marker check, holding the
\* lock, with the marker absent; it leaves the wait towards the seeder only in
\* a step whose SELECT 1 succeeded; it reaches the seeder only along that way,
\* holding the lock all the time; at most one seeder is in progress.
C23_SeederOnlyByHolderAfterReady ==
  /\ [][/\ seederRuns' # seederRuns =>
             \E i \in Inst : pc[i] = "seeder" /\ pc'[i] = "seeding" /\ held[i]
        /\ \A i \in Inst : pc'[i] # pc[i] =>
             /\ pc'[i] = "wait_pre" =>
                  pc[i] = "check_flag" /\ held[i] /\ ~check_flag_exists(fs)
             /\ pc'[i] \in {"settle", "db_loop", "db_nc", "safe_cd", "seeder", "seeding"} =>
                  /\ held[i] /\ held'[i]
                  /\ pc[i] \in {"wait_pre", "settle", "db_loop", "db_nc", "safe_cd", "seeder"}
             /\ pc'[i] = "safe_cd" => pc[i] = "db_loop" /\ env.psql /\ db.ready
             /\ pc'[i] = "seeder" => pc[i] = "safe_cd"
             /\ pc'[i] = "seeding" => pc[i] = "seeder" /\ seederRuns' = seederRuns + 1]_vars
  /\ [](/\ Cardinality({ i \in Inst : pc[i] = "seeding" }) <= 1
        /\ \A i \in Inst : pc[i] \in {"seeder", "seeding"} =>
             held[i] /\ firstPoll[i] # "none" /\ ~check_flag_exists(fs))

\* the second invocation of the seeder, by the holder that took over after a failed one
C23_Witness ==
  \E i, j \in Inst :
    /\ pc[i] = "seeding" /\ held[i] /\ seederRuns = 2
    /\ outcome[j] = "FAILED_action_failed" /\ ~held[j]
\* a step of instance j that starts or continues a run with the marker present:
\* from the lock attempts it goes to the blocking acquire, gives up on the lock
\* or enters the skip path; from the skip path it stays there or ends SKIPPED
StepWithMarkerPresent(j) ==
  /\ (pc[j] \in {"flock_n", "flock_w"} /\ check_flag_exists(fs) /\ pc'[j] # pc[j]) =>
        \/ pc'[j] = "flock_w"
        \/ pc'[j] = "exit" /\ outcome'[j] = "FAILED_lock_timeout"
        \/ SkipPath(j)'
  /\ (SkipPath(j) /\ pc'[j] # pc[j]) =>
        \/ SkipPath(j)'
        \/ pc'[j] = "exit" /\ outcome'[j] = "SKIPPED"

\* C24: at most one run has terminated COMPLETED; once a run has terminated
\* COMPLETED the marker is present, and a run that starts with the marker
\* present can only end SKIPPED or FAILED(lock-timeout).
C24_AtMostOneCompleted ==
  /\ [](Cardinality(Completed) <= 1)
  /\ [](Completed # {} => check_flag_exists(fs))
  /\ [][\A j \in Inst : StepWithMarkerPresent(j)]_vars

\* one run completed with a plain-file marker and a later one was skipped
C24_Witness ==
  /\ Cardinality(Completed) = 1 /\ fs.flag = "file" /\ ~flag0
  /\ \E j \in Inst : outcome[j] = "SKIPPED" /\ ~wrote[j]
\* the outcomes of the exits that come after a flock -u 200
ReleasedOutcomes ==
  {"SKIPPED", "COMPLETED", "FAILED_dependency_timeout", "FAILED_cd",
   "FAILED_action_failed", "FAILED_marker_write_failed"}

\* C25: the step that ends a run through a flock -u 200 is taken by an instance
\* that holds the lock; the lock-timeout exit is taken by an instance that does
\* not hold it and changes no instance's hold; a lock is lost only in a step of
\* its holder.
C25_ReleaseOnlyByHolder ==
  [][\A i \in Inst :
       /\ (pc[i] # "exit" /\ pc'[i] = "exit" /\ outcome'[i] \in ReleasedOutcomes) =>
             held[i] /\ ~held'[i]
       /\ (pc[i] # "exit" /\ outcome'[i] = "FAILED_lock_timeout") =>
             ~held[i] /\ ~acquired[i] /\ held' = held
       /\ (held[i] /\ ~held'[i]) => pc'[i] # pc[i]
       /\ pc'[i] # pc[i] => \A j \in Inst \ {i} : held'[j] = held[j]]_vars

\* one instance gave up on the lock while the holder is at the final flock -u
C25_Witness ==
  \E i, j \in Inst :
    /\ outcome[i] = "FAILED_lock_timeout" /\ ~held[i]
    /\ held[j] /\ pc[j] = "release"
\* instance i is in the application without a run of init.sh
AppWithoutInit(i) == pc[i] = "app" /\ outcome[i] = "NONE"

\* C26: the first step of the entrypoint starts init.sh or, init.sh missing,
\* the application, and never ends the entrypoint; the step to the application
\* changes neither the marker nor the lock nor the seeder count; an entrypoint
\* in the application without init.sh has never held the lock, polled the
\* database, run the seeder or written the marker, and stays in the application.
C26_NoInitStartsApplication ==
  /\ [][\A i \in Inst :
          /\ (pc[i] = "entry" /\ pc'[i] # pc[i]) =>
                /\ pc'[i] \in {"flock_n", "app"}
                /\ fs' = fs /\ held' = held /\ seederRuns' = seederRuns
                /\ pc'[i] = "app" => outcome'[i] = "NONE"
          /\ AppWithoutInit(i) => AppWithoutInit(i)']_vars
  /\ [](\A i \in Inst :
          AppWithoutInit(i) =>
             /\ ~acquired[i] /\ ~held[i] /\ ~wrote[i]
             /\ firstPoll[i] = "none" /\ seeder_rc[i] = "none")

\* an entrypoint without init.sh is in the application while the marker is
\* absent and the other instance runs the seeder
C26_Witness ==
  \E i, j \in Inst :
    /\ AppWithoutInit(i) /\ ~check_flag_exists(fs)
    /\ pc[j] = "seeding" /\ held[j]
\* C27: without pg_isready the step that enters wait_for_database ends the run
\* FAILED, exit status non-zero, with no time slept, no check made, the seeder
\* not invoked, the marker absent and the lock free, whatever the database
\* does; no instance is ever in the settle delay, the poll loop or beyond.
C27_NoPgIsreadyFailsAtOnce ==
  /\ [][\A i \in Inst :
          (pc[i] = "wait_pre" /\ ~env.pg_isready /\ pc'[i] # pc[i]) =>
             /\ pc'[i] = "exit" /\ outcome'[i] = "FAILED_dependency_timeout"
             /\ ExitStatus(outcome'[i]) # 0
             /\ db_wall'[i] = 0 /\ firstPoll'[i] = "none"
             /\ seeder_rc'[i] = "none" /\ seederRuns' = seederRuns
             /\ ~check_flag_exists(fs')
             /\ \A j \in Inst : ~held'[j]]_vars
  /\ [](~env.pg_isready =>
          /\ seederRuns = 0
          /\ \A i \in Inst :
               /\ pc[i] \notin {"settle", "db_loop", "db_nc", "safe_cd", "seeder", "seeding",
                                "create_flag"}
               /\ firstPoll[i] = "none" /\ db_wall[i] = 0)

\* a run failed for want of pg_isready although the database answered all the time
C27_Witness ==
  \E i \in Inst :
    /\ ~env.pg_isready /\ db.ready /\ dbHist = "always"
    /\ outcome[i] = "FAILED_dependency_timeout" /\ acquired[i]
    /\ ~check_flag_exists(fs) /\ \A j \in Inst : ~held[j]
\* C28: when /app cannot be entered, the safe_cd step ends the run with a
\* non-zero exit status, the seeder not invoked, the marker absent and the lock
\* free; the seeder is never invoked in such a container.
C28_SafeCdFailure ==
  /\ [][\A i \in Inst :
          (pc[i] = "safe_cd" /\ ~env.app_dir /\ pc'[i] # pc[i]) =>
             /\ pc'[i] = "exit" /\ outcome'[i] = "FAILED_cd"
             /\ ExitStatus(outcome'[i]) # 0
             /\ seeder_rc'[i] = "none" /\ seederRuns' = seederRuns
             /\ ~check_flag_exists(fs')
             /\ \A j \in Inst : ~held'[j]]_vars
  /\ [](~env.app_dir =>
          /\ seederRuns = 0 /\ check_flag_exists(fs) = flag0
          /\ \A i \in Inst : pc[i] \notin {"seeder", "seeding", "create_flag"})

\* a run ended at safe_cd after the database had answered its first check
C28_Witness ==
  \E i \in Inst :
    /\ outcome[i] = "FAILED_cd" /\ firstPoll[i] = "ok" /\ ~env.app_dir
    /\ seederRuns = 0 /\ ~check_flag_exists(fs) /\ \A j \in Inst : ~held[j]
Ceil(a, b) == (a + b - 1) \div b

\* instance i is at the loop test and every poll of the current call of
\* wait_for_database failed on both checks: the time spent is the settle delay
\* plus the counted sleeps, no sleep 2
AllChecksFailed(i) ==
  pc[i] = "db_loop" /\ firstPoll[i] = "fail" /\ db_wall[i] = SettleDelay + db_elapsed[i]

\* the functional checks made so far in such a call: one for each counted sleep
Polls(i) == db_elapsed[i] \div env.db_interval

\* C29: in a call in which both checks failed at every poll, the counter is a
\* multiple of the interval below timeout + interval; the call returns TIMEOUT
\* exactly when it has made ceil(timeout / interval) functional checks, the
\* counter then being ceil(timeout / interval) * interval, and that step ends
\* the run FAILED(dependency-timeout).
C29_PollCount ==
  /\ [](\A i \in Inst :
          AllChecksFailed(i) =>
             /\ Polls(i) * env.db_interval = db_elapsed[i]
             /\ db_elapsed[i] < env.db_timeout + env.db_interval
             /\ Polls(i) <= Ceil(env.db_timeout, env.db_interval)
             /\ AtTimeout(i) <=>
                  (pc[i] = "db_loop" /\ Polls(i) = Ceil(env.db_timeout, env.db_interval)))
  /\ [][\A i \in Inst :
          (AllChecksFailed(i) /\ AtTimeout(i) /\ pc'[i] # pc[i]) =>
             /\ db_elapsed[i] = Ceil(env.db_timeout, env.db_interval) * env.db_interval
             /\ pc'[i] = "exit" /\ outcome'[i] = "FAILED_dependency_timeout"]_vars

\* the loop is about to return TIMEOUT after polls that all failed, with a
\* timeout that is not a multiple of the interval
C29_Witness ==
  \E i \in Inst :
    /\ AllChecksFailed(i) /\ AtTimeout(i) /\ dbHist = "never"
    /\ env.db_timeout % env.db_interval # 0
    /\ db_elapsed[i] > env.db_timeout
\* create_flag returned success from filesystem state f with result r
RoundTrip(f, r) ==
  /\ check_flag_exists(r.fs)
  /\ f.flag = "dir" => r.fs.flag = "dir" /\ r.fs.inner
  /\ f.flag # "dir" => r.fs.flag = "file" /\ ~r.fs.inner
  /\ r.fs.parent = f.parent

\* C30: for every filesystem state and outcome of the write, a create_flag
\* that returns success leaves check_flag_exists true, the marker file inside
\* the directory when the marker path is a directory (which stays one), the
\* marker path a plain file otherwise; so does the step of the script that
\* calls it.
C30_MarkerRoundTrip ==
  /\ [](\A f \in FsStates : \A io_ok \in BOOLEAN :
          create_flag(f, io_ok).rc = 0 => RoundTrip(f, create_flag(f, io_ok)))
  /\ [][\A i \in Inst :
          (pc[i] = "create_flag" /\ pc'[i] = "release") =>
             RoundTrip(fs, [rc |-> 0, fs |-> fs'])]_vars

\* the marker was written inside the directory and the run goes on to its end
C30_Witness ==
  \E i \in Inst :
    /\ pc[i] = "release" /\ seeder_rc[i] = "ok" /\ wrote[i]
    /\ fs.flag = "dir" /\ fs.inner /\ ~flag0
====
